---- MODULE Spec2Model ----
(***************************************************************************)
(* Model of stripeChecker.py: the mode dispatcher (main), the three HTTP   *)
(* probes, the brute-force scanner and the two report renderings           *)
(* (save_results_to_file, display_results), with the console they print    *)
(* on: rich reads every string it prints as markup.                        *)
(*                                                                         *)
(* Python values are records tagged with their Python type name:           *)
(*   None  [t |-> "NoneType"]        bool  [t |-> "bool", b |-> TRUE]      *)
(*   str   [t |-> "str", s |-> ".."] list  [t |-> "list", items |-> <<>>]  *)
(*   dict  [t |-> "dict", pairs |-> << <<key, value>>, ... >>]             *)
(* An optional command-line parameter is <<>> when unset (None) and <<v>>  *)
(* when set.  The dicts the probes return (Outcomes) are TLA+ records      *)
(* whose DOMAIN is the set of keys present.                                *)
(***************************************************************************)
EXTENDS Integers, Sequences, FiniteSets, TLC

\* no_args    len(sys.argv) == 1 (line 257)
\* params     the options of main (lines 247-253)
\* pc         where the run is: "start", "calling" (a probe or the scanner is
\*            in progress), or ended: "usage", "rejected" (typer.Exit of a
\*            failed check), "crashed" (an exception left main), "report_ready";
\*            "report_given" when a Report is handed to the reporter directly
\* calls      the functions main has called so far, in order
\* responses  what the HTTP client answered to the probes so far, in order
\* results    the dict `results` of main, as the sequence of its items
\* csv_file   the rows of the CSV file written, None while there is no file
\* table      the rows display_results has added to its Table (the cells as
\*            passed to add_row), None while there is no Table
\* shown      the rows of the table as the console printed them, None while
\*            no table has been printed
VARIABLES no_args, params, pc, calls, responses, results, csv_file, table, shown

vars == <<no_args, params, pc, calls, responses, results, csv_file, table, shown>>

-----------------------------------------------------------------------------
(* Bounds of the model *)

\* start / stop are drawn from -1 .. MaxId
MaxId == 1
\* number of entries of a Report handed directly to the Reporter
MaxEntries == 2

-----------------------------------------------------------------------------
(* Python values *)

None == <<>>
Some(v) == <<v>>
IsNone(x) == x = <<>>
Val(x) == x[1]

PyNone == [t |-> "NoneType"]
PyBool(b) == [t |-> "bool", b |-> b]
Str(s) == [t |-> "str", s |-> s]
List(items) == [t |-> "list", items |-> items]
Dict(pairs) == [t |-> "dict", pairs |-> pairs]

\* truthiness of an optional string parameter: `not x` is true for None and ""
Falsy(x) == IsNone(x) \/ Val(x) = ""

RECURSIVE PyRepr(_)
RECURSIVE PyReprItems(_)
RECURSIVE PyReprPairs(_)
\* repr(v); the sample strings hold no quote or backslash, so repr(str) is
\* the text between single quotes
PyRepr(v) ==
    CASE v.t = "NoneType" -> "None"
      [] v.t = "bool" -> IF v.b THEN "True" ELSE "False"
      [] v.t = "str" -> "'" \o v.s \o "'"
      [] v.t = "list" -> "[" \o PyReprItems(v.items) \o "]"
      [] v.t = "dict" -> "{" \o PyReprPairs(v.pairs) \o "}"
PyReprItems(items) ==
    IF items = <<>> THEN ""
    ELSE IF Len(items) = 1 THEN PyRepr(items[1])
    ELSE PyRepr(items[1]) \o ", " \o PyReprItems(Tail(items))
PyReprPairs(pairs) ==
    IF pairs = <<>> THEN ""
    ELSE IF Len(pairs) = 1 THEN "'" \o pairs[1][1] \o "': " \o PyRepr(pairs[1][2])
    ELSE "'" \o pairs[1][1] \o "': " \o PyRepr(pairs[1][2]) \o ", "
         \o PyReprPairs(Tail(pairs))

\* str(v), which is also what an f-string "{v}" inserts
PyToStr(v) == IF v.t = "str" THEN v.s ELSE PyRepr(v)

RECURSIVE Indent(_)
Indent(n) == IF n = 0 THEN "" ELSE "  " \o Indent(n - 1)

RECURSIVE JsonDumpsIndent(_, _)
RECURSIVE JsonItemsIndent(_, _)
RECURSIVE JsonPairsIndent(_, _)
\* json.dumps(v, indent=2) at nesting depth `level`
JsonDumpsIndent(v, level) ==
    CASE v.t = "NoneType" -> "null"
      [] v.t = "bool" -> IF v.b THEN "true" ELSE "false"
      [] v.t = "str" -> "\"" \o v.s \o "\""
      [] v.t = "list" ->
            IF v.items = <<>> THEN "[]"
            ELSE "[\n" \o JsonItemsIndent(v.items, level + 1)
                 \o "\n" \o Indent(level) \o "]"
      [] v.t = "dict" ->
            IF v.pairs = <<>> THEN "{}"
            ELSE "{\n" \o JsonPairsIndent(v.pairs, level + 1)
                 \o "\n" \o Indent(level) \o "}"
JsonItemsIndent(items, level) ==
    IF Len(items) = 1 THEN Indent(level) \o JsonDumpsIndent(items[1], level)
    ELSE Indent(level) \o JsonDumpsIndent(items[1], level) \o ",\n"
         \o JsonItemsIndent(Tail(items), level)
JsonPairsIndent(pairs, level) ==
    IF Len(pairs) = 1
    THEN Indent(level) \o "\"" \o pairs[1][1] \o "\": "
         \o JsonDumpsIndent(pairs[1][2], level)
    ELSE Indent(level) \o "\"" \o pairs[1][1] \o "\": "
         \o JsonDumpsIndent(pairs[1][2], level) \o ",\n"
         \o JsonPairsIndent(Tail(pairs), level)

-----------------------------------------------------------------------------
(* The HTTP boundary: what requests.get / requests.post can answer *)

StatusCodes == {200, 401}

BodyCharges == "{\"data\": [], \"has_more\": false}"
BodyError == "{\"error\": {\"message\": \"Invalid API Key\"}}"
BodyList == "[]"
BodyNull == "null"
BodyHtml == "<html>Bad Gateway</html>"
BodyEmpty == ""
\* texts that are not JSON and hold rich markup tags: a balanced pair, and
\* an unmatched closing tag
BodyStyled == "[bold]hi[/bold]"
BodyDocs == "see [/docs] for help"

Bodies ==
    {BodyCharges, BodyError, BodyList, BodyNull, BodyHtml, BodyEmpty, BodyStyled, BodyDocs}

\* whether response.json() parses the body
IsJson(text) == text \in {BodyCharges, BodyError, BodyList, BodyNull}

\* response.json() on a body it parses
JsonLoads(text) ==
    CASE text = BodyCharges ->
            Dict(<< <<"data", List(<<>>)>>, <<"has_more", PyBool(FALSE)>> >>)
      [] text = BodyError ->
            Dict(<< <<"error", Dict(<< <<"message", Str("Invalid API Key")>> >>)>> >>)
      [] text = BodyList -> List(<<>>)
      [] text = BodyNull -> PyNone

\* str(e) of the JSONDecodeError response.json() raises on the other bodies;
\* BodyStyled starts like a JSON list, so the parser fails one character in
JsonDecodeErrorText(text) ==
    IF text = BodyStyled THEN "Expecting value: line 1 column 2 (char 1)"
    ELSE "Expecting value: line 1 column 1 (char 0)"

\* str(e) of the exception the HTTP client raises; it is the empty string for
\* an exception raised without a message, such as ConnectionError()
ExcMessages == {"Connection refused", "Read timed out.", ""}

Responses ==
    [kind : {"http"}, status_code : StatusCodes, text : Bodies]
    \cup [kind : {"exc"}, msg : ExcMessages]

\* dict.get(key, default)
DictHas(d, key) == \E i \in 1..Len(d.pairs) : d.pairs[i][1] = key
DictGet(d, key, default) ==
    IF DictHas(d, key)
    THEN d.pairs[CHOOSE i \in 1..Len(d.pairs) : d.pairs[i][1] = key][2]
    ELSE default

-----------------------------------------------------------------------------
(* The probes *)

test_list_charges(secret_key, resp) ==
    IF resp.kind = "exc"
    THEN [status |-> FALSE, error |-> Str(resp.msg)]
    ELSE IF resp.status_code = 200
         THEN IF IsJson(resp.text)
              THEN [status |-> TRUE, raw_response |-> JsonLoads(resp.text)]
              ELSE [status |-> FALSE, error |-> Str(JsonDecodeErrorText(resp.text))]
         ELSE IF IsJson(resp.text)
              THEN [status |-> FALSE, raw_response |-> JsonLoads(resp.text)]
              ELSE [status |-> FALSE, raw_response |-> Str(resp.text)]

test_publishable_key(pubkey, resp) ==
    IF resp.kind = "exc"
    THEN [status |-> FALSE, error |-> Str(resp.msg)]
    ELSE IF resp.status_code = 200
         THEN IF IsJson(resp.text)
              THEN [status |-> TRUE, raw_response |-> JsonLoads(resp.text)]
              ELSE [status |-> FALSE, error |-> Str(JsonDecodeErrorText(resp.text))]
         ELSE IF IsJson(resp.text)
              THEN IF JsonLoads(resp.text).t = "dict"
                   THEN [status |-> FALSE,
                         error |-> DictGet(JsonLoads(resp.text), "error", Str(resp.text))]
                   \* .get on a non-dict raises AttributeError, caught by the outer except
                   ELSE [status |-> FALSE,
                         error |-> Str("'" \o JsonLoads(resp.text).t
                                       \o "' object has no attribute 'get'")]
              ELSE [status |-> FALSE, error |-> Str(resp.text)]

test_custom_endpoint(secret_key, endpoint, resp) ==
    IF resp.kind = "exc"
    THEN [status |-> FALSE, error |-> Str(resp.msg)]
    ELSE IF resp.status_code = 200
         THEN IF IsJson(resp.text)
              THEN [status |-> TRUE, raw_response |-> JsonLoads(resp.text)]
              ELSE [status |-> FALSE, error |-> Str(JsonDecodeErrorText(resp.text))]
         ELSE [status |-> FALSE, raw_response |-> Str(resp.text)]

-----------------------------------------------------------------------------
(* The scanner *)

\* field width of the format specification "010"
IdWidth == 10

Digit(d) == <<"0", "1", "2", "3", "4", "5", "6", "7", "8", "9">>[d + 1]

RECURSIVE DecStr(_)
\* decimal digits of a natural number
DecStr(n) == IF n < 10 THEN Digit(n) ELSE DecStr(n \div 10) \o Digit(n % 10)

RECURSIVE ZeroPad(_, _)
ZeroPad(s, width) == IF Len(s) >= width THEN s ELSE ZeroPad("0" \o s, width)

\* f"{n:010}": sign-aware zero padding to a minimum width of 10, the sign
\* counting in the width; longer numbers are not cut
Format010(n) ==
    IF n < 0 THEN "-" \o ZeroPad(DecStr(-n), IdWidth - 1)
    ELSE ZeroPad(DecStr(n), IdWidth)

\* time.sleep(delay / 1000) raises ValueError for a negative length
SleepRaises(delay) == delay < 0

brute_force_customers(secret_key, delay, start, stop) ==
    [found_customers |->
        << [id |-> "cus_" \o Format010(start), email |-> Str("customer1@example.com")],
           [id |-> "cus_" \o Format010(stop), email |-> PyNone] >>]

-----------------------------------------------------------------------------
(* The console: console.print reads a string, and the cells of a Table, as  *)
(* rich markup.  "[name]" opens a style and "[/name]" closes it; the tags   *)
(* are taken out of the text printed, and a closing tag that matches no     *)
(* open tag raises MarkupError.  A bracket is a tag only when the text      *)
(* after "[" starts with a lower-case letter, "#", "/" or "@", so that the  *)
(* brackets of JSON and of Python lists are plain text.                     *)

OpenTag(name) == [close |-> FALSE, name |-> name]
CloseTag(name) == [close |-> TRUE, name |-> name]

\* sample texts holding tags, besides BodyStyled and BodyDocs
TextDown == "[red]down[/red]"
TextCloseX == "[/x]"
EndpointCloseB == "https://yourapi.com/[/b]"
FolderCloseB == "out[/b]"

\* the tags of a string, in the order they stand in it
MarkupTags(s) ==
    CASE s = BodyStyled -> <<OpenTag("bold"), CloseTag("bold")>>
      [] s = BodyDocs -> <<CloseTag("docs")>>
      [] s = TextDown -> <<OpenTag("red"), CloseTag("red")>>
      [] s = TextCloseX -> <<CloseTag("x")>>
      [] s = EndpointCloseB -> <<CloseTag("b")>>
      [] s = FolderCloseB -> <<CloseTag("b")>>
      [] OTHER -> <<>>

\* the string with its tags taken out
MarkupStrip(s) ==
    CASE s = BodyStyled -> "hi"
      [] s = BodyDocs -> "see  for help"
      [] s = TextDown -> "down"
      [] s = TextCloseX -> ""
      [] s = EndpointCloseB -> "https://yourapi.com/"
      [] s = FolderCloseB -> "out"
      [] OTHER -> s

RECURSIVE RemoveLast(_, _)
\* the stack of open tags without the innermost one of that name
RemoveLast(stack, name) ==
    IF stack[Len(stack)] = name THEN SubSeq(stack, 1, Len(stack) - 1)
    ELSE Append(RemoveLast(SubSeq(stack, 1, Len(stack) - 1), name), stack[Len(stack)])

RECURSIVE MarkupRaisesFrom(_, _)
MarkupRaisesFrom(tags, stack) ==
    IF tags = <<>> THEN FALSE
    ELSE IF ~Head(tags).close
         THEN MarkupRaisesFrom(Tail(tags), Append(stack, Head(tags).name))
         ELSE IF \E i \in 1..Len(stack) : stack[i] = Head(tags).name
              THEN MarkupRaisesFrom(Tail(tags), RemoveLast(stack, Head(tags).name))
              ELSE TRUE

\* whether printing a text with these tags raises MarkupError: a closing tag
\* finds no open tag of its name; tags left open are no error
MarkupRaises(tags) == MarkupRaisesFrom(tags, <<>>)

RECURSIVE ValTags(_)
RECURSIVE ItemsTags(_)
RECURSIVE PairsTags(_)
\* the tags of str(v) and of json.dumps(v): those of its strings, in order
ValTags(v) ==
    CASE v.t = "str" -> MarkupTags(v.s)
      [] v.t = "list" -> ItemsTags(v.items)
      [] v.t = "dict" -> PairsTags(v.pairs)
      [] OTHER -> <<>>
ItemsTags(items) ==
    IF items = <<>> THEN <<>> ELSE ValTags(items[1]) \o ItemsTags(Tail(items))
PairsTags(pairs) ==
    IF pairs = <<>> THEN <<>>
    ELSE MarkupTags(pairs[1][1]) \o ValTags(pairs[1][2]) \o PairsTags(Tail(pairs))

RECURSIVE StripVal(_)
\* the value with the tags taken out of its strings.  The text str() and
\* json.dumps put around the strings of a value holds no tag, so the printed
\* form of str(v) is str(StripVal(v)), and likewise for json.dumps
StripVal(v) ==
    CASE v.t = "str" -> Str(MarkupStrip(v.s))
      [] v.t = "list" -> List([i \in 1..Len(v.items) |-> StripVal(v.items[i])])
      [] v.t = "dict" ->
            Dict([i \in 1..Len(v.pairs) |->
                     <<MarkupStrip(v.pairs[i][1]), StripVal(v.pairs[i][2])>>])
      [] OTHER -> v

-----------------------------------------------------------------------------
(* The reporter *)

\* isinstance(data, dict): Outcomes and discovery lists, as opposed to plain values
IsDictEntry(data) == "t" \notin DOMAIN data

\* data.get(key, default)
Get(data, key, default) == IF key \in DOMAIN data THEN data[key] ELSE default

\* truth of data.get("status")
StatusTruthy(data) == "status" \in DOMAIN data /\ data.status

Row(test, result, status) == [Test |-> test, Result |-> result, Status |-> status]

CustomerInfo(c) == c.id \o " (" \o PyToStr(Get(c, "email", Str("No Email"))) \o ")"
CustomerStatus(c) == IF c.id # "" THEN "PASS" ELSE "FAIL"

\* str of a payload in the Result column: indented JSON for dict and list
ResultStr(raw) ==
    IF raw.t \in {"dict", "list"} THEN JsonDumpsIndent(raw, 0) ELSE PyToStr(raw)

\* status of a plain (non-dict) entry
PlainStatus(data) ==
    IF data = PyBool(TRUE) THEN "PASS" ELSE "FAIL (" \o PyToStr(data) \o ")"

\* CsvStatus without the lookup of the error key
CsvStatus_NoErrorLookup(data) ==
    IF StatusTruthy(data) THEN "PASS"
    ELSE "FAIL (" \o PyToStr(Get(data, "raw_response", Str("Unknown Error"))) \o ")"

\* line 119: status of a dict entry in the CSV record
CsvStatus(data) ==
    IF StatusTruthy(data) THEN "PASS"
    ELSE "FAIL ("
         \o PyToStr(Get(data, "error", Get(data, "raw_response", Str("Unknown Error"))))
         \o ")"

\* rows one entry of the Report adds to the CSV record
CsvRows(test, data) ==
    IF IsDictEntry(data)
    THEN IF "raw_response" \in DOMAIN data
         THEN << Row(test, ResultStr(data.raw_response), CsvStatus(data)) >>
         ELSE IF "found_customers" \in DOMAIN data
              THEN [i \in 1..Len(data.found_customers) |->
                        Row("Found Customer", CustomerInfo(data.found_customers[i]),
                            CustomerStatus(data.found_customers[i]))]
              ELSE << Row(test, "-", CsvStatus(data)) >>
    ELSE << Row(test, "-", PlainStatus(data)) >>

RECURSIVE CsvData(_)
\* lines 116-137: the list csv_data, the rows of the CSV file
CsvData(rs) ==
    IF rs = <<>> THEN <<>>
    ELSE CsvRows(rs[1].k, rs[1].v) \o CsvData(Tail(rs))

\* output folders: one that can be made, one below a regular file, one whose
\* name holds an unmatched closing tag
FolderOutput == "output"
FolderUnderFile == "notes.txt/out"
OutputFolders == {FolderOutput, FolderUnderFile, FolderCloseB}

\* line 109: Path(output_folder).mkdir raises NotADirectoryError below a
\* regular file
MkdirRaises(output_folder) == output_folder = FolderUnderFile

\* line 145: the tags of the message that names the file written; the file
\* name after the folder holds none
SavedMessageTags(output_folder) ==
    <<OpenTag("bold green")>> \o MarkupTags(output_folder) \o <<CloseTag("bold green")>>

\* the file written (None when mkdir raised before it), and whether the call
\* raised: in mkdir, or in the message printed after the file is written
save_results_to_file(rs, output_folder) ==
    IF MkdirRaises(output_folder)
    THEN [file |-> None, raised |-> TRUE]
    ELSE [file |-> Some(CsvData(rs)),
          raised |-> MarkupRaises(SavedMessageTags(output_folder))]

\* DisplayStatus taking the presence of a payload for a pass
DisplayStatus_PayloadMeansPass(data) ==
    IF "raw_response" \in DOMAIN data
    THEN "PASS"
    ELSE IF StatusTruthy(data) THEN "PASS"
         ELSE "FAIL (" \o PyToStr(Get(data, "error", Str("Unknown Error"))) \o ")"

\* lines 158 and 169: status of a dict entry in the display table
DisplayStatus(data) ==
    IF "raw_response" \in DOMAIN data
    THEN IF StatusTruthy(data) THEN "PASS" ELSE "FAIL"
    ELSE IF StatusTruthy(data) THEN "PASS"
         ELSE "FAIL (" \o PyToStr(Get(data, "error", Str("Unknown Error"))) \o ")"

\* rows one entry of the Report adds to the display table
DisplayRows(test, data) ==
    IF IsDictEntry(data)
    THEN IF "raw_response" \in DOMAIN data
         THEN << Row(test, ResultStr(data.raw_response), DisplayStatus(data)) >>
         ELSE IF "found_customers" \in DOMAIN data
              THEN [i \in 1..Len(data.found_customers) |->
                        Row("Found Customer", CustomerInfo(data.found_customers[i]),
                            CustomerStatus(data.found_customers[i]))]
              ELSE << Row(test, "-", DisplayStatus(data)) >>
    ELSE << Row(test, "-", PlainStatus(data)) >>

RECURSIVE TableRows(_)
\* lines 154-174: the rows added to the Table
TableRows(rs) ==
    IF rs = <<>> THEN <<>>
    ELSE DisplayRows(rs[1].k, rs[1].v) \o TableRows(Tail(rs))

\* the tags of each cell an entry of the Report adds to the Table; the
\* literal cells "-", "PASS" and "FAIL" hold none
CellTags(test, data) ==
    IF IsDictEntry(data)
    THEN IF "raw_response" \in DOMAIN data
         THEN {MarkupTags(test), ValTags(data.raw_response)}
         ELSE IF "found_customers" \in DOMAIN data
              THEN {MarkupTags(data.found_customers[i].id)
                       \o ValTags(Get(data.found_customers[i], "email", Str("No Email")))
                    : i \in 1..Len(data.found_customers)}
              ELSE {MarkupTags(test),
                    IF StatusTruthy(data) THEN <<>>
                    ELSE ValTags(Get(data, "error", Str("Unknown Error")))}
    ELSE {MarkupTags(test), IF data = PyBool(TRUE) THEN <<>> ELSE ValTags(data)}

\* line 176: console.print(table) raises MarkupError when a cell does
TableRaises(rs) ==
    \E i \in 1..Len(rs) : \E tags \in CellTags(rs[i].k, rs[i].v) : MarkupRaises(tags)

\* an entry of the Report with the tags taken out of its strings
StripEntry(data) ==
    IF IsDictEntry(data)
    THEN [key \in DOMAIN data |->
             CASE key = "status" -> data[key]
               [] key = "found_customers" ->
                     [i \in 1..Len(data[key]) |->
                         [f \in DOMAIN data[key][i] |->
                             IF f = "id" THEN MarkupStrip(data[key][i][f])
                             ELSE StripVal(data[key][i][f])]]
               [] OTHER -> StripVal(data[key])]
    ELSE StripVal(data)

\* the rows of an entry as the console prints them: the cells with their
\* tags taken out
ShownRows(test, data) ==
    LET rows == DisplayRows(test, data)
        stripped == DisplayRows(MarkupStrip(test), StripEntry(data))
    IN [r \in 1..Len(rows) |->
           Row(stripped[r].Test, stripped[r].Result,
               IF rows[r].Status \in {"PASS", "FAIL"} THEN rows[r].Status
               ELSE stripped[r].Status)]

RECURSIVE ShownTable(_)
ShownTable(rs) ==
    IF rs = <<>> THEN <<>>
    ELSE ShownRows(rs[1].k, rs[1].v) \o ShownTable(Tail(rs))

\* the rows added to the Table, whether printing it raised, and the rows the
\* console printed (None when it raised)
display_results(rs) ==
    [rows |-> TableRows(rs),
     raised |-> TableRaises(rs),
     shown |-> IF TableRaises(rs) THEN None ELSE Some(ShownTable(rs))]

-----------------------------------------------------------------------------
(* The mode dispatcher (main) *)

\* default of --delay, in milliseconds
DefaultDelay == 500

KnownModes == {"default", "brute-force", "pubkey", "full", "restricted", "custom"}

\* the per-mode checks of main that end in typer.Exit(); TRUE when the run goes on
Validate(p) ==
    IF IsNone(p.mode) THEN FALSE
    ELSE CASE Val(p.mode) = "default" -> ~Falsy(p.secretkey)
           [] Val(p.mode) = "brute-force" ->
                 /\ ~(Falsy(p.secretkey) \/ IsNone(p.start) \/ IsNone(p.stop))
                 /\ ~(Val(p.start) > Val(p.stop))
           [] Val(p.mode) = "pubkey" -> ~Falsy(p.pubkey)
           [] Val(p.mode) = "full" -> ~(Falsy(p.secretkey) \/ Falsy(p.pubkey))
           [] Val(p.mode) = "restricted" -> ~Falsy(p.secretkey)
           [] Val(p.mode) = "custom" -> ~(Falsy(p.secretkey) \/ Falsy(p.custom_endpoint))
           [] OTHER -> FALSE

\* ProbePlan with full mode stopping after the charge listing
ProbePlan_FullOnlyCharges(mode) ==
    CASE mode = "default" -> <<"test_list_charges">>
      [] mode = "brute-force" -> <<"brute_force_customers">>
      [] mode = "pubkey" -> <<"test_publishable_key">>
      [] mode = "full" -> <<"test_list_charges">>
      [] mode = "restricted" -> <<"test_list_charges">>
      [] mode = "custom" -> <<"test_custom_endpoint">>

\* ProbePlan with default mode calling the charge listing a second time
ProbePlan_RetryCharges(mode) ==
    CASE mode = "default" -> <<"test_list_charges", "test_list_charges">>
      [] mode = "brute-force" -> <<"brute_force_customers">>
      [] mode = "pubkey" -> <<"test_publishable_key">>
      [] mode = "full" -> <<"test_list_charges", "test_publishable_key">>
      [] mode = "restricted" -> <<"test_list_charges">>
      [] mode = "custom" -> <<"test_custom_endpoint">>

\* the functions a mode's branch of main calls, in order
ProbePlan(mode) ==
    CASE mode = "default" -> <<"test_list_charges">>
      [] mode = "brute-force" -> <<"brute_force_customers">>
      [] mode = "pubkey" -> <<"test_publishable_key">>
      [] mode = "full" -> <<"test_list_charges", "test_publishable_key">>
      [] mode = "restricted" -> <<"test_list_charges">>
      [] mode = "custom" -> <<"test_custom_endpoint">>

\* the key of `results` the return value of a call is stored under
ResultKey(fn) ==
    CASE fn = "test_list_charges" -> "list_charges"
      [] fn = "brute_force_customers" -> "brute_force_results"
      [] fn = "test_publishable_key" -> "test_publishable_key"
      [] fn = "test_custom_endpoint" -> "test_custom_endpoint"

\* the return value of an HTTP probe, given what the HTTP client answered
CallProbe(fn, p, resp) ==
    CASE fn = "test_list_charges" -> test_list_charges(Val(p.secretkey), resp)
      [] fn = "test_publishable_key" -> test_publishable_key(Val(p.pubkey), resp)
      [] fn = "test_custom_endpoint" ->
            test_custom_endpoint(Val(p.secretkey), Val(p.custom_endpoint), resp)

\* line 318: the tags of the message for an unknown mode, which quotes str(mode)
UnknownModeTags(mode) ==
    <<OpenTag("bold red")>>
    \o (IF IsNone(mode) THEN <<>> ELSE MarkupTags(Val(mode)))
    \o <<CloseTag("bold red")>>

\* whether the message printed ahead of typer.Exit() raises MarkupError; only
\* the message of the final else quotes a parameter
RejectRaises(p) ==
    /\ ~IsNone(p.mode)
    /\ Val(p.mode) \notin KnownModes
    /\ MarkupRaises(UnknownModeTags(p.mode))

\* whether the line a branch prints ahead of its first call raises
\* MarkupError; only the message of custom mode (line 313) quotes a parameter
AnnounceRaises(p) ==
    /\ Val(p.mode) = "custom"
    /\ MarkupRaises(MarkupTags(Val(p.custom_endpoint)))

Ids == -1 .. MaxId
Delays == {-1, DefaultDelay}
Opt(S) == {None} \cup {Some(v) : v \in S}

ParamSpace ==
    [mode : Opt(KnownModes \cup {"bogus", TextCloseX}),
     secretkey : Opt({"", "sk_test_4eC39HqLyjWD"}),
     pubkey : Opt({"pk_test_TYooMQauvdED"}),
     start : Opt(Ids),
     stop : Opt(Ids),
     delay : Delays,
     custom_endpoint : Opt({"https://yourapi.com/test", EndpointCloseB}),
     output_folder : OutputFolders]

\* the values of the options when the command line gives none
DefaultParams ==
    [mode |-> None, secretkey |-> None, pubkey |-> None, start |-> None,
     stop |-> None, delay |-> DefaultDelay, custom_endpoint |-> None,
     output_folder |-> FolderOutput]

Init ==
    /\ no_args \in BOOLEAN
    /\ params \in ParamSpace
    /\ no_args => params = DefaultParams
    /\ pc = "start"
    /\ calls = <<>>
    /\ responses = <<>>
    /\ results = <<>>
    /\ csv_file = None
    /\ table = None
    /\ shown = None

\* lines 257-260: no argument at all prints the header and the menu, and exits
ShowMenu ==
    /\ pc = "start"
    /\ no_args
    /\ pc' = "usage"
    /\ UNCHANGED <<no_args, params, calls, responses, results, csv_file, table, shown>>

\* a failed check of the mode's branch, or the final else: the message is
\* printed, then typer.Exit() raised; a MarkupError of the message leaves main
\* instead
Reject ==
    /\ pc = "start"
    /\ ~no_args
    /\ ~Validate(params)
    /\ pc' = IF RejectRaises(params) THEN "crashed" ELSE "rejected"
    /\ UNCHANGED <<no_args, params, calls, responses, results, csv_file, table, shown>>

\* the checks pass; the branch prints what it is about to test and issues
\* its first call, unless printing raised
Dispatch ==
    /\ pc = "start"
    /\ ~no_args
    /\ Validate(params)
    /\ IF AnnounceRaises(params)
       THEN pc' = "crashed" /\ UNCHANGED calls
       ELSE pc' = "calling" /\ calls' = <<ProbePlan(Val(params.mode))[1]>>
    /\ UNCHANGED <<no_args, params, responses, results, csv_file, table, shown>>

\* lines 321-331: results is non-empty here, so save_results_to_file is called
\* and then display_results; nothing catches what either raises
Finish(rs) ==
    LET saved == save_results_to_file(rs, params.output_folder)
        displayed == display_results(rs)
    IN /\ csv_file' = saved.file
       /\ IF saved.raised
          THEN table' = None /\ shown' = None /\ pc' = "crashed"
          ELSE /\ table' = Some(displayed.rows)
               /\ shown' = displayed.shown
               /\ pc' = IF displayed.raised THEN "crashed" ELSE "report_ready"

\* the call in flight
Current == calls[Len(calls)]

\* results[key] = data on an insertion-ordered dict
DictSet(rs, key, data) ==
    IF \E i \in 1..Len(rs) : rs[i].k = key
    THEN [i \in 1..Len(rs) |-> IF rs[i].k = key THEN [k |-> key, v |-> data] ELSE rs[i]]
    ELSE Append(rs, [k |-> key, v |-> data])

\* the result of the call in flight is stored; the branch goes on to its next
\* call, or to the report
Store(data) ==
    LET rs == DictSet(results, ResultKey(Current), data)
        plan == ProbePlan(Val(params.mode))
    IN /\ results' = rs
       /\ IF Len(calls) < Len(plan)
          THEN /\ calls' = Append(calls, plan[Len(calls) + 1])
               /\ UNCHANGED <<pc, csv_file, table, shown>>
          ELSE /\ Finish(rs)
               /\ UNCHANGED calls

\* the HTTP client answers (or raises in) the probe in flight
ProbeReturn ==
    /\ pc = "calling"
    /\ Current # "brute_force_customers"
    /\ \E resp \in Responses :
          /\ responses' = Append(responses, resp)
          /\ Store(CallProbe(Current, params, resp))
    /\ UNCHANGED <<no_args, params>>

\* the scanner sleeps and returns its two identifiers
ScannerReturn ==
    /\ pc = "calling"
    /\ Current = "brute_force_customers"
    /\ ~SleepRaises(params.delay)
    /\ Store(brute_force_customers(Val(params.secretkey), params.delay,
                                   Val(params.start), Val(params.stop)))
    /\ UNCHANGED <<no_args, params, responses>>

\* time.sleep raises ValueError, which nothing in main catches
ScannerRaise ==
    /\ pc = "calling"
    /\ Current = "brute_force_customers"
    /\ SleepRaises(params.delay)
    /\ pc' = "crashed"
    /\ UNCHANGED <<no_args, params, calls, responses, results, csv_file, table, shown>>

Next ==
    \/ ShowMenu
    \/ Reject
    \/ Dispatch
    \/ ProbeReturn
    \/ ScannerReturn
    \/ ScannerRaise

Spec == Init /\ [][Next]_vars

-----------------------------------------------------------------------------
(* The reporter alone, on Reports handed to it directly *)

SampleError == Dict(<< <<"error", Dict(<< <<"message", Str("Invalid API Key")>> >>)>> >>)
SampleList == List(<< PyNone, PyBool(TRUE), Str("a") >>)

EntryPool ==
    { [status |-> TRUE, raw_response |-> Dict(<< <<"id", Str("tok_1")>> >>)],
      [status |-> TRUE, raw_response |-> Str("ok")],
      [status |-> TRUE],
      [status |-> FALSE, raw_response |-> SampleError],
      [status |-> FALSE, raw_response |-> SampleList],
      [status |-> FALSE, raw_response |-> Str("<html>Bad Gateway</html>")],
      [status |-> FALSE, raw_response |-> PyNone],
      [status |-> FALSE, error |-> Str("Connection refused")],
      [status |-> FALSE, error |-> Dict(<< <<"message", Str("Invalid API Key")>> >>)],
      [status |-> FALSE, error |-> Str("boom"), raw_response |-> Str("partial")],
      [status |-> FALSE],
      [found_customers |->
          << [id |-> "cus_0000000001", email |-> Str("customer1@example.com")],
             [id |-> "cus_0000000100", email |-> PyNone] >>],
      [found_customers |-> << [id |-> "", email |-> Str("x@example.com")],
                              [id |-> "cus_0000000007"] >>],
      [found_customers |-> <<>>],
      PyBool(TRUE),
      PyBool(FALSE),
      Str("skipped"),
      [status |-> FALSE, raw_response |-> Str(BodyDocs)],
      [status |-> FALSE, raw_response |-> Str(BodyStyled)],
      [status |-> TRUE, raw_response |-> Dict(<< <<"note", Str(TextCloseX)>> >>)],
      [status |-> FALSE, error |-> Str(TextDown)],
      Str(TextCloseX) }

TestNames ==
    <<"list_charges", "test_publishable_key", "test_custom_endpoint", "brute_force_results">>

\* Reports of 1..MaxEntries entries, the i-th under the i-th test name
ReportSpace ==
    UNION { { [i \in 1..n |-> [k |-> TestNames[i], v |-> f[i]]] : f \in [1..n -> EntryPool] }
            : n \in 1..MaxEntries }

InitReport ==
    /\ no_args = FALSE
    /\ params \in {[DefaultParams EXCEPT !.output_folder = f] : f \in OutputFolders}
    /\ pc = "report_given"
    /\ calls = <<>>
    /\ responses = <<>>
    /\ results \in ReportSpace
    /\ csv_file = None
    /\ table = None
    /\ shown = None

\* save_results_to_file(results, output_folder) followed by display_results(results)
Render ==
    /\ pc = "report_given"
    /\ Finish(results)
    /\ UNCHANGED <<no_args, params, calls, responses, results>>

NextReport == Render

SpecReport == InitReport /\ [][NextReport]_vars

-----------------------------------------------------------------------------
(* Vocabulary of the properties *)

Mode == IF IsNone(params.mode) THEN "" ELSE Val(params.mode)

Terminated == pc \notin {"start", "calling", "report_given"}

Keys == [i \in 1..Len(results) |-> results[i].k]

\* an Outcome, as opposed to a discovery list or a plain value
IsOutcome(data) == IsDictEntry(data) /\ "found_customers" \notin DOMAIN data

Succeeded(data) == "status" \in DOMAIN data /\ data.status

\* the Outcome has the key raw_response, which is what the reporter tests
HasPayloadKey(data) == "raw_response" \in DOMAIN data
\* the Outcome carries a payload: the key is there and its value is not None
HasPayload(data) == HasPayloadKey(data) /\ data.raw_response # PyNone
\* the Outcome has the key error
HasError(data) == "error" \in DOMAIN data
\* the Outcome carries an error: the key is there and its value is neither
\* None nor the empty string
HasErrorText(data) == HasError(data) /\ data.error # PyNone /\ data.error # Str("")

\* the response is an HTTP 200
Is200(resp) == resp.kind = "http" /\ resp.status_code = 200

\* the required parameters of the mode table, with "unset" meaning not given
RequiredUnset(p) ==
    CASE Mode = "default" -> IsNone(p.secretkey)
      [] Mode = "restricted" -> IsNone(p.secretkey)
      [] Mode = "pubkey" -> IsNone(p.pubkey)
      [] Mode = "full" -> IsNone(p.secretkey) \/ IsNone(p.pubkey)
      [] Mode = "custom" -> IsNone(p.secretkey) \/ IsNone(p.custom_endpoint)
      [] Mode = "brute-force" -> IsNone(p.secretkey) \/ IsNone(p.start) \/ IsNone(p.stop)
      [] OTHER -> FALSE

NothingDone ==
    /\ calls = <<>>
    /\ responses = <<>>
    /\ results = <<>>
    /\ csv_file = None
    /\ table = None
    /\ shown = None

\* the CSV file is written
Written == csv_file # None

-----------------------------------------------------------------------------
(* C1 *)

\* C1: a run with an unset required parameter, with start > stop in
\* brute-force mode, or with an unknown mode is rejected before any call is
\* made: it ends by the usage menu or the rejection exit, with no network
\* call, no Report and no report file.
C1_RejectedBeforeAnyCall ==
    (\/ Mode \notin KnownModes
     \/ RequiredUnset(params)
     \/ (Mode = "brute-force" /\ ~IsNone(params.start) /\ ~IsNone(params.stop)
            /\ Val(params.start) > Val(params.stop)))
    => (pc \in {"start", "rejected", "usage"} /\ NothingDone)

-----------------------------------------------------------------------------
(* C2 *)

\* C2: in default and restricted mode the Report has the one key
\* list_charges, and its Outcome succeeded exactly when the HTTP status of the
\* response is 200, whatever the body.
C2_SucceededIffStatus200 ==
    (pc = "report_ready" /\ Mode \in {"default", "restricted"})
    => /\ Keys = <<"list_charges">>
       /\ Succeeded(results[1].v) <=> Is200(responses[1])

-----------------------------------------------------------------------------
(* C3 *)

\* C3: in full mode validateCharges is called first and validatePublishable
\* second, the Report has exactly the keys list_charges and
\* test_publishable_key, and each Outcome is decided by its own response
\* alone: a failure of one probe never keeps the other from running and
\* being reported.  This holds of every full run that got past validation,
\* whether the reporter then printed the Report or raised; both entries are
\* in the report file whenever its folder could be made.
C3_FullRunsBothIndependently ==
    /\ (Mode = "full" /\ Len(responses) >= 1)
         => (Len(calls) = 2 /\ results[1].k = "list_charges")
    /\ (Mode = "full" /\ pc \in {"report_ready", "crashed"})
         => /\ calls = <<"test_list_charges", "test_publishable_key">>
            /\ Keys = <<"list_charges", "test_publishable_key">>
            /\ Len(responses) = 2
            /\ \A i \in 1..2 :
                  Succeeded(results[i].v)
                     <=> (Is200(responses[i]) /\ IsJson(responses[i].text))
            /\ results[1].v = test_list_charges(Val(params.secretkey), responses[1])
            /\ results[2].v = test_publishable_key(Val(params.pubkey), responses[2])
            /\ ~MkdirRaises(params.output_folder)
                  => /\ Written
                     /\ Len(Val(csv_file)) = 2
                     /\ \A i \in 1..2 : Val(csv_file)[i].Test = Keys[i]

C3_Witness ==
    /\ Mode = "full"
    /\ pc = "report_ready"
    /\ Len(Val(csv_file)) = 2
    /\ responses[1].kind = "exc"
    /\ ~Succeeded(results[1].v)
    /\ Is200(responses[2])
    /\ Succeeded(results[2].v)
    /\ Keys = <<"list_charges", "test_publishable_key">>

-----------------------------------------------------------------------------
(* C4 *)

\* C4: for each of the three probes, a transport-level exception in the
\* network call yields an Outcome with succeeded = false, a non-empty error
\* and no payload.
C4_TransportExceptionOutcome ==
    \A i \in 1..Len(responses) :
        (responses[i].kind = "exc" /\ i <= Len(results))
        => /\ IsOutcome(results[i].v)
           /\ ~Succeeded(results[i].v)
           /\ HasError(results[i].v)
           /\ results[i].v.error.t = "str"
           /\ results[i].v.error.s # ""
           /\ ~HasPayloadKey(results[i].v)

-----------------------------------------------------------------------------
(* C5 *)

\* C5: every run that passes parameter validation ends in the report-ready
\* state with a Report produced and a report file written; no probe or
\* Scanner call raises past its own boundary.
C5_ValidatedRunsReachReport ==
    (Terminated /\ ~no_args /\ Validate(params))
    => (pc = "report_ready" /\ results # <<>> /\ csv_file # None)

-----------------------------------------------------------------------------
(* C6 *)

\* C6: every Outcome a probe puts into a Report has a payload when it
\* succeeded; none succeeded with both payload and error empty.  A payload
\* that is None is no payload.
C6_SuccessHasPayload ==
    \A i \in 1..Len(results) :
        (IsOutcome(results[i].v) /\ Succeeded(results[i].v))
        => /\ HasPayload(results[i].v)
           /\ HasPayload(results[i].v) \/ HasErrorText(results[i].v)

-----------------------------------------------------------------------------
(* C7 *)

\* rows an entry contributes: one per discovered identifier, else one
EntryRows(data) ==
    IF IsDictEntry(data) /\ ~IsOutcome(data) THEN Len(data.found_customers) ELSE 1

RECURSIVE RowsBefore(_, _)
RowsBefore(rs, i) ==
    IF i = 1 THEN 0 ELSE RowsBefore(rs, i - 1) + EntryRows(rs[i - 1].v)

\* the rows of entry i, as indexes into either rendering
RowsOfEntry(i) ==
    (RowsBefore(results, i) + 1) .. (RowsBefore(results, i) + EntryRows(results[i].v))

\* the CSV file is written and the Table built
Rendered == csv_file # None /\ table # None
\* no string of the entry holds a markup tag
NoTags(i) == \A tags \in CellTags(results[i].k, results[i].v) : tags = <<>>

\* a failed Outcome that carries a payload
FailedWithPayload(data) == IsOutcome(data) /\ ~Succeeded(data) /\ HasPayloadKey(data)

-----------------------------------------------------------------------------
(* C8 *)

RECURSIVE LastDigits(_, _)
\* the k low decimal digits of n, high digit first
LastDigits(n, k) == IF k = 0 THEN "" ELSE LastDigits(n \div 10, k - 1) \o Digit(n % 10)

\* C8: every brute-force run with a secret-like credential and start <= stop
\* produces a Report with the one key brute_force_results, whose
\* found_customers are two identifiers, "cus_" followed by start, and by stop,
\* as 10 decimal digits.
C8_TwoPaddedIdentifiers ==
    (/\ Terminated
     /\ Mode = "brute-force"
     /\ ~Falsy(params.secretkey)
     /\ ~IsNone(params.start) /\ ~IsNone(params.stop)
     /\ Val(params.start) <= Val(params.stop))
    => /\ pc = "report_ready"
       /\ Keys = <<"brute_force_results">>
       /\ DOMAIN results[1].v = {"found_customers"}
       /\ Len(results[1].v.found_customers) = 2
       /\ results[1].v.found_customers[1].id = "cus_" \o LastDigits(Val(params.start), 10)
       /\ results[1].v.found_customers[2].id = "cus_" \o LastDigits(Val(params.stop), 10)

-----------------------------------------------------------------------------
(* C9 *)

RECURSIVE JsonDumps(_)
RECURSIVE JsonItems(_)
RECURSIVE JsonPairs(_)
\* the JSON text of a value (json.dumps with its default separators)
JsonDumps(v) ==
    CASE v.t = "NoneType" -> "null"
      [] v.t = "bool" -> IF v.b THEN "true" ELSE "false"
      [] v.t = "str" -> "\"" \o v.s \o "\""
      [] v.t = "list" -> "[" \o JsonItems(v.items) \o "]"
      [] v.t = "dict" -> "{" \o JsonPairs(v.pairs) \o "}"
JsonItems(items) ==
    IF items = <<>> THEN ""
    ELSE IF Len(items) = 1 THEN JsonDumps(items[1])
    ELSE JsonDumps(items[1]) \o ", " \o JsonItems(Tail(items))
JsonPairs(pairs) ==
    IF pairs = <<>> THEN ""
    ELSE IF Len(pairs) = 1 THEN "\"" \o pairs[1][1] \o "\": " \o JsonDumps(pairs[1][2])
    ELSE "\"" \o pairs[1][1] \o "\": " \o JsonDumps(pairs[1][2]) \o ", "
         \o JsonPairs(Tail(pairs))

\* C9 as stated: in the CSV record an Outcome has status PASS exactly when it
\* succeeded; otherwise "FAIL (<summary>)", the summary being the error when
\* set, else the JSON-serialized payload when present, else "Unknown Error".
C9_FailSummaryIsJson ==
    Written
    => \A i \in 1..Len(results) :
          IsOutcome(results[i].v)
          => Val(csv_file)[RowsBefore(results, i) + 1].Status
               = IF Succeeded(results[i].v) THEN "PASS"
                 ELSE "FAIL ("
                      \o (IF HasError(results[i].v) THEN PyToStr(results[i].v.error)
                          ELSE IF HasPayloadKey(results[i].v)
                               THEN JsonDumps(results[i].v.raw_response)
                               ELSE "Unknown Error")
                      \o ")"

\* C9 as amended: the same, with the payload summarized by its Python string
\* form (str(payload): raw text as it is, a parsed dict or list in Python
\* literal notation), not by its JSON text.
C9_FailSummaryIsPythonStr ==
    Written
    => \A i \in 1..Len(results) :
          IsOutcome(results[i].v)
          => /\ (Val(csv_file)[RowsBefore(results, i) + 1].Status = "PASS")
                   <=> Succeeded(results[i].v)
             /\ Val(csv_file)[RowsBefore(results, i) + 1].Status
                  = IF Succeeded(results[i].v) THEN "PASS"
                    ELSE "FAIL ("
                         \o (IF HasError(results[i].v) THEN PyToStr(results[i].v.error)
                             ELSE IF HasPayloadKey(results[i].v)
                                  THEN PyToStr(results[i].v.raw_response)
                                  ELSE "Unknown Error")
                         \o ")"

C9_Witness ==
    /\ Written
    /\ Len(results) = 2
    /\ results[1].v = [status |-> FALSE, raw_response |-> SampleList]
    /\ Val(csv_file)[1].Status = "FAIL ([None, True, 'a'])"
    /\ results[2].v = [status |-> FALSE]
    /\ Val(csv_file)[2].Status = "FAIL (Unknown Error)"

-----------------------------------------------------------------------------
(* C10 *)

\* number of calls the mode table gives a mode
PlannedCalls == IF Mode = "full" THEN 2 ELSE 1

\* C10: a run issues at most two calls, one after another, never the same
\* one twice; each call that returned contributed exactly one Report entry, a
\* failed call exactly one FAIL row of the record; the report file is written
\* only after the last call of the mode has returned.
C10_SequentialCallsOneEntryEach ==
    /\ Len(calls) <= 2
    /\ \A i, j \in 1..Len(calls) : calls[i] = calls[j] => i = j
    /\ Len(results) <= Len(calls)
    /\ Len(calls) <= Len(results) + 1
    /\ \A i, j \in 1..Len(results) : results[i].k = results[j].k => i = j
    /\ (pc # "report_given" /\ csv_file # None)
         => /\ Len(calls) = PlannedCalls
            /\ Len(results) = Len(calls)
            /\ \A i \in 1..Len(results) :
                  (IsOutcome(results[i].v) /\ ~Succeeded(results[i].v))
                  => /\ Cardinality({r \in 1..Len(Val(csv_file)) :
                                        Val(csv_file)[r].Test = results[i].k}) = 1
                     /\ \A r \in 1..Len(Val(csv_file)) :
                           Val(csv_file)[r].Test = results[i].k
                           => Val(csv_file)[r].Status # "PASS"

C10_Witness ==
    /\ pc = "report_ready"
    /\ Mode = "full"
    /\ Len(calls) = 2
    /\ responses[1].kind = "exc"
    /\ ~Succeeded(results[1].v)
    /\ Succeeded(results[2].v)
    /\ Len(Val(csv_file)) = 2
    /\ Val(csv_file)[1] = Row("list_charges", "-", "FAIL (Connection refused)")
    /\ Val(csv_file)[2].Status = "PASS"

====
